---- MODULE Spec2Model ----
(***************************************************************************)
(* Model of beanprice/sources/eastmoneyquota.py: the EastMoney price       *)
(* source.  Python strings are sequences of one-character strings, so that *)
(* splitting, upper-casing, strptime and Decimal parsing are computed      *)
(* character by character as the library does.                             *)
(***************************************************************************)
EXTENDS Integers, Sequences, FiniteSets, TLC

VARIABLES pc, fn, ticker, time, resp, requests, ret

vars == <<pc, fn, ticker, time, resp, requests, ret>>

(***************************************************************************)
(* Bounds of the model.                                                    *)
(***************************************************************************)
\* longest klines list a response carries
MaxRows == 2
\* unprefixed ticker codes have 4 .. MaxCodeLen characters
MaxCodeLen == 7
\* targets and rows are dated FirstDay .. FirstDay + MaxDaySpan of December 2024
MaxDaySpan == 2

(***************************************************************************)
(* Characters and strings.                                                 *)
(***************************************************************************)
Digits == <<"0", "1", "2", "3", "4", "5", "6", "7", "8", "9">>

LowerLetters == <<"a", "b", "c", "d", "e", "f", "g", "h", "i", "j", "k", "l", "m",
                  "n", "o", "p", "q", "r", "s", "t", "u", "v", "w", "x", "y", "z">>

UpperLetters == <<"A", "B", "C", "D", "E", "F", "G", "H", "I", "J", "K", "L", "M",
                  "N", "O", "P", "Q", "R", "S", "T", "U", "V", "W", "X", "Y", "Z">>

Range(s) == {s[i] : i \in DOMAIN s}

IsDigitChar(c) == c \in Range(Digits)

\* int(c) of one decimal digit character
DigitValue(c) == (CHOOSE i \in DOMAIN Digits : Digits[i] = c) - 1

\* str.isdigit(): non-empty and every character a digit
IsDigit(s) == Len(s) > 0 /\ \A i \in DOMAIN s : IsDigitChar(s[i])

UpperChar(c) ==
    IF c \in Range(LowerLetters)
    THEN UpperLetters[CHOOSE i \in DOMAIN LowerLetters : LowerLetters[i] = c]
    ELSE c

\* str.upper()
Upper(s) == [i \in DOMAIN s |-> UpperChar(s[i])]

\* positions of the character c in s
Positions(s, c) == {i \in DOMAIN s : s[i] = c}

Min(S) == CHOOSE x \in S : \A y \in S : x <= y

\* s.split(c, 1) on a string that contains c: the parts around the first c
SplitFirst(s, c) ==
    LET p == Min(Positions(s, c))
    IN  <<SubSeq(s, 1, p - 1), SubSeq(s, p + 1, Len(s))>>

\* s.split(c): the parts between every occurrence of c
RECURSIVE Split(_, _)
Split(s, c) ==
    IF Positions(s, c) = {} THEN <<s>>
    ELSE LET p == Min(Positions(s, c))
         IN  <<SubSeq(s, 1, p - 1)>> \o Split(SubSeq(s, p + 1, Len(s)), c)

\* int(s) of a digit string
RECURSIVE ToInt(_)
ToInt(s) ==
    IF Len(s) = 0 THEN 0
    ELSE 10 * ToInt(SubSeq(s, 1, Len(s) - 1)) + DigitValue(s[Len(s)])

(***************************************************************************)
(* Outcomes of a call: a returned value or a raised exception.             *)
(***************************************************************************)
Return(v) == [kind |-> "return", value |-> v]

Raise(e, m) == [kind |-> "raise", exc |-> e, msg |-> m]

NoRet == [kind |-> "none"]

\* the Python object None, and str(x) of a string or None
PyNone == [isNone |-> TRUE, str |-> <<>>]

PyStr(s) == [isNone |-> FALSE, str |-> s]

Format(x) == IF x.isNone THEN <<"N", "o", "n", "e">> ELSE x.str

(***************************************************************************)
(* Identifier resolution.                                                  *)
(***************************************************************************)
CURRENCY == "CNY"

\* utcoffset of TIMEZONE, in hours
TIMEZONE == 8

MarketPrefixes == {<<"S", "Z">>, <<"S", "H">>, <<"H", "K">>}

market_mapping(p) ==
    CASE p = <<"S", "Z">> -> <<"0">>
      [] p = <<"S", "H">> -> <<"1">>
      [] p = <<"H", "K">> -> <<"1", "1", "6">>

\* the if/elif chain of get_market_code; a 6-digit ticker whose first digit
\* matches neither inner branch leaves the function without a return
\* statement, which returns None
get_market_code(t) ==
    IF IsDigit(t) /\ Len(t) = 6
    THEN IF t[1] \in {"0", "1", "2", "3"} THEN Return(PyStr(market_mapping(<<"S", "Z">>)))
         ELSE IF t[1] = "6" THEN Return(PyStr(market_mapping(<<"S", "H">>)))
         ELSE Return(PyNone)
    ELSE IF IsDigit(t) /\ Len(t) = 5 THEN Return(PyStr(market_mapping(<<"H", "K">>)))
    ELSE Raise("EastMoneyQuotaError", <<"Unsupported ticker format: ", "{ticker}">>)

\* generate_secid with the upper-casing of the prefix left out
generate_secid_noupper(t) ==
    IF Positions(t, ".") # {}
    THEN LET prefix == SplitFirst(t, ".")[1]
             code   == SplitFirst(t, ".")[2]
         IN  IF prefix \notin MarketPrefixes
             THEN Raise("EastMoneyQuotaError", <<"Unsupported market prefix: ", "{prefix}">>)
             ELSE Return(market_mapping(prefix) \o <<".">> \o code)
    ELSE LET m == get_market_code(t)
         IN  IF m.kind = "raise" THEN m
             ELSE Return(Format(m.value) \o <<".">> \o t)

generate_secid(t) ==
    IF Positions(t, ".") # {}
    THEN LET prefix == Upper(SplitFirst(t, ".")[1])
             code   == SplitFirst(t, ".")[2]
         IN  IF prefix \notin MarketPrefixes
             THEN Raise("EastMoneyQuotaError", <<"Unsupported market prefix: ", "{prefix}">>)
             ELSE Return(market_mapping(prefix) \o <<".">> \o code)
    ELSE LET m == get_market_code(t)
         IN  IF m.kind = "raise" THEN m
             ELSE Return(Format(m.value) \o <<".">> \o t)

(***************************************************************************)
(* Dates and times.  A datetime is [year, month, day, hour, utcoffset];    *)
(* hours are the finest unit of the model.                                 *)
(***************************************************************************)
IsLeap(y) == y % 4 = 0 /\ (y % 100 # 0 \/ y % 400 = 0)

DaysInMonth(y, m) ==
    IF m = 2 THEN (IF IsLeap(y) THEN 29 ELSE 28)
    ELSE IF m \in {4, 6, 9, 11} THEN 30 ELSE 31

RECURSIVE DaysBeforeMonth(_, _)
DaysBeforeMonth(y, m) ==
    IF m = 1 THEN 0 ELSE DaysBeforeMonth(y, m - 1) + DaysInMonth(y, m - 1)

\* date.toordinal()
ToOrdinal(y, m, d) ==
    LET p == y - 1
    IN  p * 365 + (p \div 4) - (p \div 100) + (p \div 400) + DaysBeforeMonth(y, m) + d

\* hours since the epoch of the proleptic calendar, utcoffset normalized
Instant(dt) == ToOrdinal(dt.year, dt.month, dt.day) * 24 + dt.hour - dt.utcoffset

Abs(x) == IF x < 0 THEN -x ELSE x

\* Distance with the utcoffsets left out: wall-clock readings subtracted
Distance_naive(a, b) ==
    Abs((ToOrdinal(a.year, a.month, a.day) * 24 + a.hour)
        - (ToOrdinal(b.year, b.month, b.day) * 24 + b.hour))

\* abs((a - b).total_seconds()) of two aware datetimes, in hours
Distance(a, b) == Abs(Instant(a) - Instant(b))

\* the directive patterns of _strptime.TimeRE, matched against a whole part
MatchY(s) == Len(s) = 4 /\ IsDigit(s)

MatchM(s) ==
    \/ Len(s) = 2 /\ s[1] = "1" /\ s[2] \in {"0", "1", "2"}
    \/ Len(s) = 2 /\ s[1] = "0" /\ IsDigitChar(s[2]) /\ s[2] # "0"
    \/ Len(s) = 1 /\ IsDigitChar(s[1]) /\ s[1] # "0"

MatchD(s) ==
    \/ Len(s) = 2 /\ s[1] = "3" /\ s[2] \in {"0", "1"}
    \/ Len(s) = 2 /\ s[1] \in {"1", "2"} /\ IsDigitChar(s[2])
    \/ Len(s) = 2 /\ s[1] = "0" /\ IsDigitChar(s[2]) /\ s[2] # "0"
    \/ Len(s) = 1 /\ IsDigitChar(s[1]) /\ s[1] # "0"
    \/ Len(s) = 2 /\ s[1] = " " /\ IsDigitChar(s[2]) /\ s[2] # "0"

StripSpace(s) == IF Len(s) > 0 /\ s[1] = " " THEN Tail(s) ELSE s

\* datetime(year, month, day, tzinfo=TIMEZONE) with the constructor's range checks
MakeDate(y, m, d) ==
    IF y < 1 THEN Raise("ValueError", <<"year is out of range">>)
    ELSE IF d > DaysInMonth(y, m) THEN Raise("ValueError", <<"day is out of range for month">>)
    ELSE Return([year |-> y, month |-> m, day |-> d, hour |-> 0, utcoffset |-> TIMEZONE])

\* the match of the format's regular expression against the parts between "-"
StrptimeParts(parts) ==
    IF Len(parts) # 3 \/ ~MatchY(parts[1]) \/ ~MatchM(parts[2]) \/ ~MatchD(parts[3])
    THEN Raise("ValueError", <<"time data does not match format">>)
    ELSE MakeDate(ToInt(parts[1]), ToInt(parts[2]), ToInt(StripSpace(parts[3])))

\* datetime.strptime(s, '%Y-%m-%d').replace(tzinfo=TIMEZONE)
Strptime(s) == StrptimeParts(Split(s, "-"))

(***************************************************************************)
(* decimal.Decimal(str).  A Decimal is [sign, coeff, exp, special].        *)
(***************************************************************************)
RECURSIVE Strip(_)
Strip(s) ==
    IF Len(s) > 0 /\ s[1] = " " THEN Strip(Tail(s))
    ELSE IF Len(s) > 0 /\ s[Len(s)] = " " THEN Strip(SubSeq(s, 1, Len(s) - 1))
    ELSE s

AllDigits(s) == \A i \in DOMAIN s : IsDigitChar(s[i])

\* [-+]?\d+
IsExponent(s) ==
    LET body == IF Len(s) > 0 /\ s[1] \in {"-", "+"} THEN Tail(s) ELSE s
    IN  IsDigit(body)

ExponentValue(s) ==
    IF s[1] = "-" THEN -ToInt(Tail(s))
    ELSE IF s[1] = "+" THEN ToInt(Tail(s)) ELSE ToInt(s)

\* int, frac and exp of the numeric alternative of the Decimal grammar
DecimalParts(sign, mparts, hasExp, expstr) ==
    IF \/ Len(mparts) > 2
       \/ ~AllDigits(mparts[1])
       \/ Len(mparts) = 2 /\ ~AllDigits(mparts[2])
       \/ Len(mparts[1]) + (IF Len(mparts) = 2 THEN Len(mparts[2]) ELSE 0) = 0
       \/ hasExp /\ ~IsExponent(expstr)
    THEN Raise("InvalidOperation", <<"ConversionSyntax">>)
    ELSE Return([sign |-> sign,
                 coeff |-> ToInt(mparts[1] \o (IF Len(mparts) = 2 THEN mparts[2] ELSE <<>>)),
                 exp |-> (IF hasExp THEN ExponentValue(expstr) ELSE 0)
                         - (IF Len(mparts) = 2 THEN Len(mparts[2]) ELSE 0),
                 special |-> ""])

\* the numeric alternative, on an unsigned string with its exponent marks
DecimalNumber(sign, s, epos) ==
    IF epos = {} THEN DecimalParts(sign, Split(s, "."), FALSE, <<>>)
    ELSE DecimalParts(sign, Split(SubSeq(s, 1, Min(epos) - 1), "."), TRUE,
                      SubSeq(s, Min(epos) + 1, Len(s)))

\* the grammar on a stripped string: sign, then Inf, NaN or a number
DecimalStripped(s, sign, body) ==
    IF Upper(body) \in {<<"I", "N", "F">>, <<"I", "N", "F", "I", "N", "I", "T", "Y">>}
    THEN Return([sign |-> sign, coeff |-> 0, exp |-> 0, special |-> "F"])
    ELSE IF Upper(body) = <<"N", "A", "N">>
    THEN Return([sign |-> sign, coeff |-> 0, exp |-> 0, special |-> "n"])
    ELSE DecimalNumber(sign, body, Positions(Upper(body), "E"))

HasSign(s) == Len(s) > 0 /\ s[1] \in {"-", "+"}

DecimalSigned(s) ==
    DecimalStripped(s, IF Len(s) > 0 /\ s[1] = "-" THEN 1 ELSE 0,
                    IF HasSign(s) THEN Tail(s) ELSE s)

Decimal(str) == DecimalSigned(Strip(str))

(***************************************************************************)
(* Exception classes: the classes an except clause naming c catches.       *)
(***************************************************************************)
Bases(e) ==
    CASE e = "EastMoneyQuotaError"     -> {"EastMoneyQuotaError", "ValueError"}
      [] e = "JSONDecodeError"         -> {"JSONDecodeError", "ValueError"}
      [] e = "RequestsJSONDecodeError" -> {"RequestsJSONDecodeError", "JSONDecodeError",
                                           "ValueError", "RequestException"}
      [] e = "ConnectionError"         -> {"ConnectionError", "RequestException"}
      [] e = "Timeout"                 -> {"Timeout", "RequestException"}
      [] e = "HTTPError"               -> {"HTTPError", "RequestException"}
      [] e = "InvalidOperation"        -> {"InvalidOperation", "ArithmeticError"}
      [] OTHER                         -> {e}

Catches(classes, e) == Bases(e) \cap classes # {}

(***************************************************************************)
(* Response parsing.  A JSON body is [isNone, rc, rt, data]; data is       *)
(* [kind, hasKlines, klines] with kind "absent", "null" or "dict"; a       *)
(* kline is a JSON string PyStr(chars) or JSON null.                       *)
(***************************************************************************)
\* date and price of a row, parsed in that order
ParsePair(date, price) ==
    IF date.kind = "raise" THEN date
    ELSE IF price.kind = "raise" THEN price
    ELSE Return([date |-> date.value, price |-> price.value])

\* the unpacking of kline.split(',') into date_str, close_price
ParseParts(parts) ==
    IF Len(parts) # 2 THEN Raise("ValueError", <<"unpack">>)
    ELSE ParsePair(Strptime(parts[1]), Decimal(parts[2]))

\* the body of the for loop of parse_kline_data, before its except clause
ParseKline(kline) ==
    IF kline.isNone THEN Raise("AttributeError", <<"no attribute 'split'">>)
    ELSE ParseParts(Split(kline.str, ","))

\* one turn of the loop on the row outcome r, then the later rows: a row
\* raising ValueError or IndexError is skipped, any other exception leaves
\* the loop
LoopStep(r, rest) ==
    IF r.kind = "raise" /\ ~Catches({"ValueError", "IndexError"}, r.exc) THEN r
    ELSE IF rest.kind = "raise" THEN rest
    ELSE IF r.kind = "raise" THEN rest
    ELSE Return(<<r.value>> \o rest.value)

\* the for loop of parse_kline_data
RECURSIVE ParseRows(_)
ParseRows(klines) ==
    IF Len(klines) = 0 THEN Return(<<>>)
    ELSE LoopStep(ParseKline(Head(klines)), ParseRows(Tail(klines)))

\* list.insert keeping the order of equal keys: x goes after every element
\* whose date is not later
RECURSIVE InsertByDate(_, _)
InsertByDate(sorted, x) ==
    IF Len(sorted) = 0 THEN <<x>>
    ELSE IF Instant(x.date) < Instant(Head(sorted).date) THEN <<x>> \o sorted
    ELSE <<Head(sorted)>> \o InsertByDate(Tail(sorted), x)

\* SortedByDate with the sort left out: the rows in the provider's order
SortedByDate_unsorted(result) == result

\* sorted(result, key=lambda x: x[0]), a stable sort
RECURSIVE SortedByDate(_)
SortedByDate(result) ==
    IF Len(result) = 0 THEN <<>>
    ELSE InsertByDate(SortedByDate(SubSeq(result, 1, Len(result) - 1)), result[Len(result)])

\* parse_kline_data after its loop
Collected(result) ==
    IF result.kind = "raise" THEN result
    ELSE IF Len(result.value) = 0
    THEN Raise("EastMoneyQuotaError", <<"No valid price data found">>)
    ELSE Return(SortedByDate(result.value))

parse_kline_data(data) ==
    IF data.isNone \/ data.data.kind = "absent"
    THEN Raise("EastMoneyQuotaError", <<"Invalid API response format">>)
    ELSE IF data.data.kind = "null"
    THEN Raise("TypeError", <<"argument of type 'NoneType' is not iterable">>)
    ELSE IF ~data.data.hasKlines
    THEN Raise("EastMoneyQuotaError", <<"Invalid API response format">>)
    ELSE IF Len(data.data.klines) = 0
    THEN Raise("EastMoneyQuotaError", <<"No price data found">>)
    ELSE Collected(ParseRows(data.data.klines))

(***************************************************************************)
(* Series fetch.  A response of requests.get is [transport, status, json,  *)
(* body]: the exception requests.get raises or "ok", the HTTP status, the  *)
(* exception response.json() raises or "ok", and the decoded body.         *)
(***************************************************************************)
AbsentRt == "<absent>"

\* the emptiness check of get_price_series on the parsed prices
CheckPrices(prices) ==
    IF prices.kind = "return" /\ Len(prices.value) = 0
    THEN Raise("EastMoneyQuotaError", <<"No price data found for ", "{ticker}">>)
    ELSE prices

\* the rc check of get_price_series on the decoded body, then the parse
CheckBody(data) ==
    IF data.isNone THEN Raise("AttributeError", <<"no attribute 'get'">>)
    ELSE IF data.rc # 0
    THEN Raise("EastMoneyQuotaError",
               <<"API error: ", IF data.rt = AbsentRt THEN "Unknown error" ELSE data.rt>>)
    ELSE CheckPrices(parse_kline_data(data))

\* the statements of the try block of get_price_series
TryBlock(response) ==
    IF response.transport # "ok" THEN Raise(response.transport, <<"{transport}">>)
    ELSE IF response.status >= 400 THEN Raise("HTTPError", <<"{status}">>)
    ELSE IF response.json # "ok" THEN Raise(response.json, <<"{decode}">>)
    ELSE CheckBody(response.body)

\* the except clauses of get_price_series, in their order
ExceptClauses(r) ==
    IF r.kind # "raise" THEN r
    ELSE IF Catches({"RequestException"}, r.exc)
    THEN Raise("EastMoneyQuotaError", <<"Network error: ">> \o r.msg)
    ELSE IF Catches({"JSONDecodeError", "ValueError"}, r.exc)
    THEN Raise("EastMoneyQuotaError", <<"Invalid JSON response: ">> \o r.msg)
    ELSE r

\* get_price_series from its request on: the try statement
Fetch(response) == ExceptClauses(TryBlock(response))

\* the secid get_price_series builds from the market code
Secid(market_code, t) == Format(market_code) \o <<".">> \o t

(***************************************************************************)
(* Query selection.                                                        *)
(***************************************************************************)
SourcePrice(price, t, currency) == [price |-> price, time |-> t, quote_currency |-> currency]

\* prices[-1]
Latest(prices) == prices[Len(prices)]

\* Closest with ties going to the last element of the least key
Closest_last(prices, t) ==
    LET best == Min({Distance(prices[i].date, t) : i \in DOMAIN prices})
        i    == CHOOSE j \in DOMAIN prices :
                    /\ Distance(prices[j].date, t) = best
                    /\ \A k \in DOMAIN prices : Distance(prices[k].date, t) = best => k <= j
    IN  prices[i]

\* min(prices, key=lambda x: abs((x[0] - time).total_seconds())): the first
\* element of the least key
Closest(prices, t) ==
    LET best == Min({Distance(prices[i].date, t) : i \in DOMAIN prices})
        i    == Min({j \in DOMAIN prices : Distance(prices[j].date, t) = best})
    IN  prices[i]

\* the statements of a Source method after its call of get_price_series
Select(f, prices, t) ==
    IF prices.kind = "raise" THEN prices
    ELSE IF f \in {"get_latest_price", "get_historical_price"} /\ Len(prices.value) = 0
    THEN Raise("EastMoneyQuotaError", <<"No price data found for ", "{ticker}">>)
    ELSE IF f = "get_latest_price"
    THEN LET p == Latest(prices.value) IN Return(SourcePrice(p.price, p.date, CURRENCY))
    ELSE IF f = "get_historical_price"
    THEN LET p == Closest(prices.value, t) IN Return(SourcePrice(p.price, p.date, CURRENCY))
    ELSE IF f = "get_prices_series"
    THEN Return([i \in DOMAIN prices.value |->
                    SourcePrice(prices.value[i].price, prices.value[i].date, CURRENCY)])
    ELSE prices

\* requests_get with one retry after a transport failure
requests_get_retry(log, secid, response) ==
    IF response.transport # "ok" THEN log \o <<secid, secid>> ELSE Append(log, secid)

\* the network call of get_price_series: one request with the secid
requests_get(log, secid, response) == Append(log, secid)

(***************************************************************************)
(* Inputs: tickers, target times, provider rows and responses.             *)
(***************************************************************************)
Zeros(n) == [i \in 1..n |-> "0"]

\* a code of n characters: first, second, zeros, last
Code(n, first, second, last) == <<first, second>> \o Zeros(n - 3) \o <<last>>

Codes ==
    {Code(n, f, m, l) : n \in 4..MaxCodeLen, f \in Range(Digits) \cup {"A"},
                        m \in {"0", "."}, l \in {"0", "X"}}

Prefixes ==
    {<<>>, <<"H", "K", ".">>, <<"h", "k", ".">>, <<"H", "k", ".">>, <<"S", "Z", ".">>,
     <<"s", "z", ".">>, <<"S", "H", ".">>, <<"U", "S", ".">>, <<".">>,
     <<"I", "N", "V", "A", "L", "I", "D", ".">>}

Tickers == {p \o c : p \in Prefixes, c \in Codes}

\* the tickers the fetching operations are called with
FetchTickers ==
    {<<"0", "0", "0", "6", "5", "1">>, <<"4", "0", "0", "0", "0", "0">>,
     <<"H", "K", ".", "0", "0", "7", "0", "0">>, <<"A", "B", "C", "1", "2", "3">>}

\* first day of December 2024 among the targets and rows
FirstDay == 17

Days == FirstDay..(FirstDay + MaxDaySpan)

Hours == {0, 12, 16, 20}

Offsets == {0, 8, 12}

Targets ==
    {[year |-> 2024, month |-> 12, day |-> d, hour |-> h, utcoffset |-> o] :
        d \in Days, h \in Hours, o \in Offsets}

NoTime == [year |-> 1, month |-> 1, day |-> 1, hour |-> 0, utcoffset |-> 0]

\* the provider's rendering of a date, "%04d-%02d-%02d"
Fmt2(n) == <<Digits[(n \div 10) + 1], Digits[(n % 10) + 1]>>

DateStr(y, m, d) == Fmt2(y \div 100) \o Fmt2(y % 100) \o <<"-">> \o Fmt2(m) \o <<"-">> \o Fmt2(d)

Kline(y, m, d, price) == PyStr(DateStr(y, m, d) \o <<",">> \o price)

Klines ==
    {Kline(2024, 12, d, <<"4", "0", ".", "3", "3">>) : d \in Days}
    \cup {Kline(2024, 12, FirstDay, <<"4", "1", ".", "1", "6", "0">>),
          Kline(2024, 2, 30, <<"4", "1">>),
          Kline(2024, 12, FirstDay + 1, <<"4", "1", ",", "5">>),
          Kline(2024, 12, FirstDay + 1, <<"a", "b", "c">>),
          PyStr(<<"2", "0", "2", "4", "-", "1", "2", "-", "9", ",", "4", "1">>),
          PyStr(DateStr(2024, 12, FirstDay + 1)),
          PyNone}

KlineLists == UNION {[1..n -> Klines] : n \in 0..MaxRows}

NoData == [kind |-> "absent", hasKlines |-> FALSE, klines |-> <<>>]

NullBody == [isNone |-> TRUE, rc |-> 0, rt |-> AbsentRt, data |-> NoData]

Bodies ==
    {NullBody}
    \cup {[isNone |-> FALSE, rc |-> 1, rt |-> rt, data |-> NoData] : rt \in {"bad parameter", AbsentRt}}
    \cup {[isNone |-> FALSE, rc |-> 0, rt |-> "17", data |-> d] :
            d \in {NoData,
                   [kind |-> "null", hasKlines |-> FALSE, klines |-> <<>>],
                   [kind |-> "dict", hasKlines |-> FALSE, klines |-> <<>>]}}
    \cup {[isNone |-> FALSE, rc |-> 0, rt |-> "17",
           data |-> [kind |-> "dict", hasKlines |-> TRUE, klines |-> k]] : k \in KlineLists}

JsonResponse(b) == [transport |-> "ok", status |-> 200, json |-> "ok", body |-> b]

Responses ==
    {[transport |-> e, status |-> 0, json |-> "ok", body |-> NullBody] :
        e \in {"ConnectionError", "Timeout"}}
    \cup {[transport |-> "ok", status |-> c, json |-> "ok", body |-> NullBody] : c \in {404, 500}}
    \cup {[transport |-> "ok", status |-> 200, json |-> e, body |-> NullBody] :
            e \in {"JSONDecodeError", "RequestsJSONDecodeError"}}
    \cup {JsonResponse(b) : b \in Bodies}

NoResp == [transport |-> "none", status |-> 0, json |-> "none", body |-> NullBody]

FetchFns == {"get_price_series", "get_latest_price", "get_historical_price", "get_prices_series"}

(***************************************************************************)
(* The state machine: a caller invokes one function of the module at a     *)
(* time.  pc is the position inside the running call.                      *)
(***************************************************************************)
Init ==
    /\ pc = "idle"
    /\ fn = "none"
    /\ ticker = <<>>
    /\ time = NoTime
    /\ resp = NoResp
    /\ requests = <<>>
    /\ ret = NoRet

\* get_market_code(ticker), called directly
CallGetMarketCode ==
    /\ pc = "idle"
    /\ \E t \in Tickers :
        /\ ticker' = t
        /\ ret' = get_market_code(t)
    /\ fn' = "get_market_code"
    /\ pc' = "done"
    /\ UNCHANGED <<time, resp, requests>>

\* generate_secid(ticker), called directly
CallGenerateSecid ==
    /\ pc = "idle"
    /\ \E t \in Tickers :
        /\ ticker' = t
        /\ ret' = generate_secid(t)
    /\ fn' = "generate_secid"
    /\ pc' = "done"
    /\ UNCHANGED <<time, resp, requests>>

\* parse_kline_data(data), called directly
CallParseKlineData ==
    /\ pc = "idle"
    /\ \E b \in Bodies :
        /\ resp' = JsonResponse(b)
        /\ ret' = parse_kline_data(b)
    /\ fn' = "parse_kline_data"
    /\ pc' = "done"
    /\ UNCHANGED <<ticker, time, requests>>

\* entry of get_price_series or of a Source method, which calls it at once
CallFetch ==
    /\ pc = "idle"
    /\ \E f \in FetchFns, t \in FetchTickers, tm \in Targets :
        /\ fn' = f
        /\ ticker' = t
        /\ time' = IF f = "get_historical_price" THEN tm ELSE NoTime
    /\ pc' = "resolve"
    /\ UNCHANGED <<resp, requests, ret>>

\* get_price_series up to its request: the market code, or its error
ResolveTicker ==
    /\ pc = "resolve"
    /\ LET m == get_market_code(ticker)
       IN  IF m.kind = "raise"
           THEN pc' = "done" /\ ret' = m
           ELSE pc' = "request" /\ ret' = ret
    /\ UNCHANGED <<fn, ticker, time, resp, requests>>

\* the try statement of get_price_series, then the rest of the Source method
SendRequest ==
    /\ pc = "request"
    /\ \E response \in Responses :
        /\ requests' = requests_get(requests, Secid(get_market_code(ticker).value, ticker), response)
        /\ resp' = response
        /\ ret' = Select(fn, Fetch(response), time)
    /\ pc' = "done"
    /\ UNCHANGED <<fn, ticker, time>>

\* the call is over; the module keeps no state between calls
Finish ==
    /\ pc = "done"
    /\ pc' = "idle"
    /\ fn' = "none"
    /\ ticker' = <<>>
    /\ time' = NoTime
    /\ resp' = NoResp
    /\ requests' = <<>>
    /\ ret' = NoRet

Next ==
    \/ CallGetMarketCode
    \/ CallGenerateSecid
    \/ CallParseKlineData
    \/ CallFetch
    \/ ResolveTicker
    \/ SendRequest
    \/ Finish

Spec == Init /\ [][Next]_vars

(***************************************************************************)
(* Properties.                                                             *)
(***************************************************************************)
PublicFns == {"get_latest_price", "get_historical_price", "get_prices_series"}

\* a equals b up to the case of its letters (b in upper case)
SameIgnoringCase(a, b) ==
    /\ Len(a) = Len(b)
    /\ \A i \in DOMAIN a :
          \/ a[i] = b[i]
          \/ \E k \in DOMAIN LowerLetters : a[i] = LowerLetters[k] /\ b[i] = UpperLetters[k]

SixDigits(t) == Len(t) = 6 /\ \A i \in 1..6 : t[i] \in Range(Digits)

FiveDigits(t) == Len(t) = 5 /\ \A i \in 1..5 : t[i] \in Range(Digits)

HasDot(t) == \E i \in DOMAIN t : t[i] = "."

BeforeDot(t) == SubSeq(t, 1, Min({i \in DOMAIN t : t[i] = "."}) - 1)

AfterDot(t) == SubSeq(t, Min({i \in DOMAIN t : t[i] = "."}) + 1, Len(t))

SecidDone == pc = "done" /\ fn = "generate_secid"

\* C1: whenever generate_secid succeeds, a ticker with a '.' is split at the
\* first '.', its prefix is matched case-insensitively against SZ, SH, HK and
\* the rest is copied unchanged behind "0.", "1.", "116."; a ticker without
\* '.' of 6 digits starting 0..3 yields "0." + ticker, of 6 digits starting
\* 6 yields "1." + ticker, of 5 digits yields "116." + ticker.  Matching is
\* case-insensitive: a prefix SZ, SH or HK in any letter case succeeds.
C1_SecidFormat ==
    /\ (SecidDone /\ HasDot(ticker)
         /\ \E p \in MarketPrefixes : SameIgnoringCase(BeforeDot(ticker), p))
            => ret.kind = "return"
    /\ (SecidDone /\ ret.kind = "return") =>
            IF HasDot(ticker)
            THEN \/ SameIgnoringCase(BeforeDot(ticker), <<"S", "Z">>)
                    /\ ret.value = <<"0", ".">> \o AfterDot(ticker)
                 \/ SameIgnoringCase(BeforeDot(ticker), <<"S", "H">>)
                    /\ ret.value = <<"1", ".">> \o AfterDot(ticker)
                 \/ SameIgnoringCase(BeforeDot(ticker), <<"H", "K">>)
                    /\ ret.value = <<"1", "1", "6", ".">> \o AfterDot(ticker)
            ELSE /\ (SixDigits(ticker) /\ ticker[1] \in {"0", "1", "2", "3"})
                        => ret.value = <<"0", ".">> \o ticker
                 /\ (SixDigits(ticker) /\ ticker[1] = "6") => ret.value = <<"1", ".">> \o ticker
                 /\ FiveDigits(ticker) => ret.value = <<"1", "1", "6", ".">> \o ticker

\* a lower-case prefix in front of a code that is no 5- or 6-digit number
C1_Witness ==
    /\ SecidDone /\ ret.kind = "return"
    /\ ticker = <<"h", "k", ".", "0", "0", "0", "X">>
    /\ ret.value = <<"1", "1", "6", ".", "0", "0", "0", "X">>

\* the ticker matches no rule of identifier resolution
MatchesNoRule(f, t) ==
    IF f = "generate_secid" /\ HasDot(t)
    THEN \A p \in MarketPrefixes : ~SameIgnoringCase(BeforeDot(t), p)
    ELSE /\ ~(SixDigits(t) /\ t[1] \in {"0", "1", "2", "3", "6"})
         /\ ~FiveDigits(t)

\* C2: get_market_code and generate_secid raise EastMoneyQuotaError, and
\* return nothing, for every ticker that matches no rule (unknown prefix,
\* non-digit ticker, other lengths, 6 digits starting 4, 5, 7, 8 or 9).
C2_UnmatchedTickerRaises ==
    (pc = "done" /\ fn \in {"get_market_code", "generate_secid"} /\ MatchesNoRule(fn, ticker))
        => (ret.kind = "raise" /\ ret.exc = "EastMoneyQuotaError")

InvalidTickerError ==
    /\ ret.kind = "raise"
    /\ ret.msg[1] \in {"Unsupported ticker format: ", "Unsupported market prefix: "}

\* C3: a public operation called with a ticker on which generate_secid
\* succeeds issues its request with secid = generate_secid(ticker) and does
\* not fail with an invalid-ticker error.
C3_FetchUsesGenerateSecid ==
    (pc = "done" /\ fn \in PublicFns /\ generate_secid(ticker).kind = "return")
        => (requests = <<generate_secid(ticker).value>> /\ ~InvalidTickerError)

HistoricalDone == pc = "done" /\ fn = "get_historical_price" /\ ret.kind = "return"

\* the parsed series of the response of the running call
Series == parse_kline_data(resp.body).value

\* hours between the instants of two aware datetimes
HoursApart(a, b) ==
    LET ia == ToOrdinal(a.year, a.month, a.day) * 24 + a.hour - a.utcoffset
        ib == ToOrdinal(b.year, b.month, b.day) * 24 + b.hour - b.utcoffset
    IN  IF ia < ib THEN ib - ia ELSE ia - ib

\* p is the first point of series at the least distance from t
FirstClosest(series, p, t) ==
    \E i \in DOMAIN series :
        /\ p.time = series[i].date
        /\ p.price = series[i].price
        /\ \A j \in DOMAIN series : HoursApart(series[i].date, t) <= HoursApart(series[j].date, t)
        /\ \A j \in 1..(i - 1) : HoursApart(series[j].date, t) > HoursApart(series[i].date, t)

\* C4: get_historical_price returns a point of the parsed series at the
\* least absolute distance from the target instant (offsets normalized), and
\* among several such points the earliest in the ascending series.
C4_ClosestPoint == HistoricalDone => FirstClosest(Series, ret.value, time)

\* two points of different dates are both nearest to t, p being the earlier
TieBrokenEarly(series, p, t) ==
    \E i, j \in DOMAIN series :
        /\ i < j
        /\ series[i].date # series[j].date
        /\ HoursApart(series[i].date, t) = HoursApart(series[j].date, t)
        /\ \A k \in DOMAIN series : HoursApart(series[i].date, t) <= HoursApart(series[k].date, t)
        /\ p.time = series[i].date

\* a target outside UTC+8 that lies midway between two dates of the series
C4_Witness ==
    /\ HistoricalDone
    /\ time.utcoffset # TIMEZONE
    /\ TieBrokenEarly(Series, ret.value, time)

SameDay(a, b) == a.year = b.year /\ a.month = b.month /\ a.day = b.day

HoldsDate(series, d) == \E i \in DOMAIN series : SameDay(series[i].date, d)

\* C5 as stated: when the series holds a point dated as the target is in
\* its own offset, the returned point carries that date, at any time of day.
C5_SameDateAnyTime ==
    (HistoricalDone /\ HoldsDate(Series, time)) => SameDay(ret.value.time, time)

\* hours from midnight UTC+8 of the date d to the instant of t
HoursAfterMidnight(d, t) ==
    (ToOrdinal(t.year, t.month, t.day) * 24 + t.hour - t.utcoffset)
    - (ToOrdinal(d.year, d.month, d.day) * 24 - TIMEZONE)

\* p carries the date of every point of series whose midnight is near t
DatedAsNearMidnight(series, p, t) ==
    \A i \in DOMAIN series :
        (HoursAfterMidnight(series[i].date, t) > -12 /\ HoursAfterMidnight(series[i].date, t) <= 12)
            => SameDay(p.time, series[i].date)

\* C5 (amended): when the series holds a point dated D and the target
\* instant is less than 12 hours before and at most 12 hours after midnight
\* UTC+8 of D, the returned point is dated D.
C5_SameDateNearMidnight == HistoricalDone => DatedAsNearMidnight(Series, ret.value, time)

HoldsDateAndNext(series, t) ==
    \E i, j \in DOMAIN series :
        SameDay(series[i].date, t) /\ series[j].date.day = t.day + 1

\* midnight UTC of a date the series holds together with the next date
C5_Witness ==
    /\ HistoricalDone
    /\ time.hour = 0 /\ time.utcoffset = 0
    /\ HoldsDateAndNext(Series, time)
    /\ SameDay(ret.value.time, time)

\* the rows of the response that parse, by their position
ValidRows == {i \in DOMAIN resp.body.data.klines : ParseKline(resp.body.data.klines[i]).kind = "return"}

RowValue(i) == ParseKline(resp.body.data.klines[i]).value

\* C6: on a successful response get_latest_price returns the date and price
\* of a valid row whose date is the greatest among the valid rows, whatever
\* the order of the rows, with currency "CNY" and a time at midnight UTC+8.
C6_LatestIsMaxDate ==
    (pc = "done" /\ fn = "get_latest_price" /\ ret.kind = "return") =>
        /\ \E i \in ValidRows :
              /\ ret.value.time = RowValue(i).date
              /\ ret.value.price = RowValue(i).price
              /\ \A j \in ValidRows :
                    ToOrdinal(RowValue(j).date.year, RowValue(j).date.month, RowValue(j).date.day)
                    <= ToOrdinal(ret.value.time.year, ret.value.time.month, ret.value.time.day)
        /\ ret.value.quote_currency = "CNY"
        /\ ret.value.time.hour = 0
        /\ ret.value.time.utcoffset = 8

\* the provider lists a later date before an earlier one
C6_Witness ==
    /\ pc = "done" /\ fn = "get_latest_price" /\ ret.kind = "return"
    /\ Len(resp.body.data.klines) = 2
    /\ ValidRows = {1, 2}
    /\ RowValue(1).date.day > RowValue(2).date.day
    /\ ret.value.time = RowValue(1).date

\* the valid rows' (date, price) pairs are exactly the pairs of the result
PairsOfValidRows(result) ==
    /\ Len(result) = Cardinality(ValidRows)
    /\ \A i \in ValidRows : \E k \in DOMAIN result : result[k] = RowValue(i)
    /\ \A k \in DOMAIN result : \E i \in ValidRows : result[k] = RowValue(i)

Ascending(result) ==
    \A i, j \in DOMAIN result :
        i < j => ToOrdinal(result[i].date.year, result[i].date.month, result[i].date.day)
                 <= ToOrdinal(result[j].date.year, result[j].date.month, result[j].date.day)

\* the row splits in two at commas, its date parses and its price is a decimal
WellFormed(kline) ==
    /\ ~kline.isNone
    /\ Len(Split(kline.str, ",")) = 2
    /\ Strptime(Split(kline.str, ",")[1]).kind = "return"
    /\ Decimal(Split(kline.str, ",")[2]).kind = "return"

\* C7: on a non-empty klines list parse_kline_data skips every malformed row
\* without raising; it returns one pair per valid row, ascending by date, or
\* raises EastMoneyQuotaError "No valid price data found" when no row is valid.
C7_FilterThenRequire ==
    (pc = "done" /\ fn = "parse_kline_data" /\ resp.body.data.hasKlines
     /\ Len(resp.body.data.klines) > 0) =>
        IF \E i \in DOMAIN resp.body.data.klines : WellFormed(resp.body.data.klines[i])
        THEN ret.kind = "return" /\ PairsOfValidRows(ret.value) /\ Ascending(ret.value)
        ELSE ret = Raise("EastMoneyQuotaError", <<"No valid price data found">>)

\* C8: every failure of a public operation is an EastMoneyQuotaError.
C8_SingleErrorFamily ==
    (pc = "done" /\ fn \in PublicFns /\ ret.kind = "raise") => ret.exc = "EastMoneyQuotaError"

\* the error of the rc check or of parse_kline_data on a decoded body
LowerLayerError ==
    IF resp.body.rc # 0
    THEN Raise("EastMoneyQuotaError",
               <<"API error: ", IF resp.body.rt = AbsentRt THEN "Unknown error" ELSE resp.body.rt>>)
    ELSE parse_kline_data(resp.body)

\* C9: an EastMoneyQuotaError of the rc check or of parse_kline_data reaches
\* the caller of a public operation with exactly its own message.
C9_ErrorsUnchanged ==
    (/\ pc = "done" /\ fn \in PublicFns
     /\ resp.transport = "ok" /\ resp.status = 200 /\ resp.json = "ok" /\ ~resp.body.isNone
     /\ LowerLayerError.kind = "raise" /\ LowerLayerError.exc = "EastMoneyQuotaError")
        => ret = LowerLayerError

\* C10: a call issues at most one request, also when it fails; a request is
\* issued only for a ticker that passed validation, and a call that fails
\* on its ticker has issued none.
C10_AtMostOneRequest ==
    /\ Len(requests) <= 1
    /\ requests # <<>> => (fn \in FetchFns /\ get_market_code(ticker).kind = "return")
    /\ (pc = "done" /\ fn \in FetchFns /\ InvalidTickerError) => requests = <<>>

\* a public operation failed after its one request met a transport failure
C10_Witness ==
    /\ pc = "done" /\ fn \in PublicFns
    /\ resp.transport = "Timeout"
    /\ ret.kind = "raise"
    /\ Len(requests) = 1

====
